---- MODULE Spec2Model ----
(***************************************************************************)
(* A model of the Selenium_Browser package: element descriptors            *)
(* (GetElementProps), wait specifications (XPathLookupProps), retrieval    *)
(* (get_html_elements), the wait engine (the check_presence family) and    *)
(* navigation (browse_to_url, load_frame_elements, restart_browser).       *)
(*                                                                         *)
(* Python values are modelled as tagged records, a call's outcome as       *)
(* either Return(value) or Raise(exception class name).  The driver        *)
(* (selenium) is the environment: what it reports is chosen with \E.       *)
(***************************************************************************)
EXTENDS Integers, Sequences, FiniteSets, TLC

VARIABLES
    specs,      \* the XPathLookupProps instances the caller holds, by instance id
    errCount,   \* number of Errors objects built so far (object identity)
    title,      \* self.browser.title of the page the driver is on
    browser,    \* self.browser: the id of the session's current driver handle
    quitted,    \* the driver handles on which quit() has been called
    context,    \* the driver's browsing context: 0 = top-level document, n = frame n
    last,       \* the call in progress / just finished, with everything it did
    options,    \* the ChromeOptions objects, by object id: their argument lists
    sessions    \* the sessions (SeleniumBrowserProps + SeleniumBrowser), by session id

vars == <<specs, errCount, title, browser, quitted, context, last, options, sessions>>

(***************************************************************************)
(* Bounds of the model.                                                    *)
(***************************************************************************)
MaxMatches == 3     \* most elements the driver reports for one lookup
MaxFrames == 2      \* most frame (and most iframe) elements on a page
MaxDelay == 2       \* largest props.delay, in seconds, of a caller-built specification
MaxErrors == 4      \* most Errors objects built in one run
MaxHandles == 3     \* most driver handles created in one run

(***************************************************************************)
(* Python values and call outcomes.                                        *)
(***************************************************************************)
NONE == "<None>"                      \* Python None where a str is expected
PyNone == [t |-> "None"]
PyBool(b) == [t |-> "bool", b |-> b]
Str(s) == [t |-> "str", v |-> s]
Elem(i) == [t |-> "elem", id |-> i]   \* a WebElement handle
List(q) == [t |-> "list", items |-> q]

Return(v) == [kind |-> "return", val |-> v]
Raise(e) == [kind |-> "raise", exc |-> e]

\* selenium.webdriver.common.by.By
ById == "id"
ByClassName == "class name"
ByTagName == "tag name"
ByXPath == "xpath"

(***************************************************************************)
(* GetElementProps: the element descriptor.                                *)
(***************************************************************************)
SearchValues == {"", "login", "frame"}
OptSearch == {NONE} \cup SearchValues
AttribNames == {NONE, "href"}

GetElementProps(xpath, class, id, tag, text, attrib, ignore, force) ==
    [by_xpath |-> xpath, by_class |-> class, by_id |-> id, by_tag |-> tag,
     prefer_text |-> text, grab_attrib |-> attrib,
     ignore_list |-> ignore, force_list |-> force]

Descriptors ==
    {GetElementProps(x, c, i, t, pt, ga, il, fl) :
        x \in OptSearch, c \in OptSearch, i \in OptSearch, t \in OptSearch,
        pt \in BOOLEAN, ga \in AttribNames, il \in BOOLEAN, fl \in BOOLEAN}

\* GetElementProps.get_ref, with by_class tested before by_id
get_ref_class_first(props) ==
    IF props.by_class # NONE THEN props.by_class
    ELSE IF props.by_id # NONE THEN props.by_id
    ELSE IF props.by_tag # NONE THEN props.by_tag
    ELSE props.by_xpath

get_ref(props) ==
    IF props.by_id # NONE THEN props.by_id
    ELSE IF props.by_class # NONE THEN props.by_class
    ELSE IF props.by_tag # NONE THEN props.by_tag
    ELSE props.by_xpath

(***************************************************************************)
(* XPathLookupProps: the wait specification.  An instance has exactly the  *)
(* attributes __init__ assigns.                                            *)
(***************************************************************************)
DefaultDelay == 30

\* The outcome is Return(the updated instance): the code has no raise.
update_from_props(self, props) ==
    Return([self EXCEPT
        !.html_element_type =
            IF props.by_id # NONE THEN ById
            ELSE IF props.by_class # NONE THEN ByClassName
            ELSE IF props.by_tag # NONE THEN ByTagName
            ELSE ByXPath,
        !.search_param = get_ref(props)])

\* XPathLookupProps(html_element_type, search_param, props, delay, done_message, error).
\* An Optional argument is a sequence: <<>> for None, <<d>> for the descriptor d.
XPathLookupProps(type, search, props, delay, done, error) ==
    LET self == [html_element_type |-> type, search_param |-> search,
                 delay |-> delay, done_message |-> done, error |-> error]
    IN IF props # <<>> THEN update_from_props(self, props[1]) ELSE Return(self)

get_element_lookup(self) == <<self.html_element_type, self.search_param>>

any_element_check == XPathLookupProps(ByXPath, "//*", <<>>, DefaultDelay, "", PyNone).val

\* The attributes of an instance: Python raises AttributeError on any other name.
HasAttr(self, name) == name \in DOMAIN self

(***************************************************************************)
(* The page, as the driver reports it.  Element handles are numbered; the  *)
(* driver reports the matches of a lookup as a sequence of distinct        *)
(* handles, or signals NoSuchElementException.                             *)
(***************************************************************************)
ElemIds == 1..MaxMatches

\* WebElement.get_attribute(name): a str, or None when the attribute is absent
get_attribute(e, name) ==
    IF e.id = 1 THEN Str("https://x")
    ELSE IF e.id = 2 THEN PyNone
    ELSE Str("https://y")

\* WebElement.text
text(e) == Str(IF e.id = 1 THEN "one" ELSE IF e.id = 2 THEN "" ELSE "three")

InjectiveSeqs(S) ==
    UNION {{q \in [1..n -> S] : \A i, j \in 1..n : i # j => q[i] # q[j]} :
            n \in 0..Cardinality(S)}

Found ==
    {Raise("NoSuchElementException")}
        \cup {Return([i \in 1..Len(q) |-> Elem(q[i])]) : q \in InjectiveSeqs(ElemIds)}

(***************************************************************************)
(* SeleniumBrowser.get_html_elements_helper and get_html_elements.         *)
(***************************************************************************)
\* the find_elements_by_* call the helper issues: <<By kind, value>>, or <<>> for none
helper_lookup(props) ==
    IF props.by_id # NONE THEN <<ById, props.by_id>>
    ELSE IF props.by_class # NONE THEN <<ByClassName, props.by_class>>
    ELSE IF props.by_tag # NONE THEN <<ByTagName, props.by_tag>>
    ELSE IF props.by_xpath # NONE THEN <<ByXPath, props.by_xpath>>
    ELSE <<>>

\* lines 491-501: attribute extraction, then the shape of the result
helper_shape(props, found) ==
    LET output == IF props.grab_attrib # NONE
                  THEN [i \in 1..Len(found) |-> get_attribute(found[i], props.grab_attrib)]
                  ELSE found
    IN IF Len(output) = 0 THEN PyNone
       ELSE IF Len(output) = 1
            THEN (IF props.force_list THEN List(output) ELSE output[1])
       ELSE IF props.ignore_list THEN output[1]
       ELSE List(output)

\* found: what the driver answers to the helper's find_elements_by_* call
get_html_elements_helper(props, found) ==
    IF helper_lookup(props) = <<>> THEN Return(helper_shape(props, <<>>))
    ELSE IF found.kind = "raise" THEN Return(PyNone)
    ELSE Return(helper_shape(props, found.val))

\* Arrays.delistify: a one-element list becomes its element, anything else is kept
delistify(x) ==
    IF x.t = "list" /\ Len(x.items) = 1 THEN x.items[1] ELSE x

\* Arrays.listify: None becomes [], a list is kept, anything else is wrapped
listify(x) ==
    IF x.t = "None" THEN <<>> ELSE IF x.t = "list" THEN x.items ELSE <<x>>

\* SeleniumBrowser.get_elements_text on one item of the list (never itself a list)
get_elements_text(x) ==
    IF x.t = "None" THEN Return(x)
    ELSE IF x.t = "elem" THEN Return(text(x))
    ELSE Raise("AttributeError")             \* a str has no attribute text

\* lines 450-454 on the helper's result.  len(elements) raises TypeError for
\* None and for a WebElement; for a str the loop runs over its characters.
text_loop(props, elements) ==
    IF elements.t \in {"None", "elem"} THEN Raise("TypeError")
    ELSE IF elements.t = "str"
         THEN (IF elements.v # "" /\ props.prefer_text
               THEN Raise("AttributeError")
               ELSE Return(delistify(elements)))
    ELSE IF props.prefer_text
             /\ \E i \in 1..Len(elements.items) :
                    get_elements_text(elements.items[i]).kind = "raise"
         THEN Raise("AttributeError")
    ELSE Return(delistify(
            IF props.prefer_text
            THEN List([i \in 1..Len(elements.items) |->
                         get_elements_text(elements.items[i]).val])
            ELSE elements))

\* lines 448-454
get_html_elements(props, found) ==
    text_loop(props, get_html_elements_helper(props, found).val)

(***************************************************************************)
(* Lookups by key: create_element_lookup and create_batch_element_lookup.  *)
(* A dict is a function from its keys; a call yields [out, events], the    *)
(* events being the driver lookups made.                                   *)
(***************************************************************************)
MaxBatch == 3       \* most keys, and most descriptors, in one batch

Dict(f) == [t |-> "dict", map |-> f]
EmptyMap == [k \in {} |-> PyNone]
SetItem(f, key, v) == [k \in DOMAIN f \cup {key} |-> IF k = key THEN v ELSE f[k]]

\* Arrays.equal_length(a, b, raise_error=True): raises when the lengths differ
equal_length(a, b) ==
    IF Len(a) # Len(b) THEN Raise("ArityMismatch") ELSE Return(PyBool(TRUE))

\* lines 444-446 from index idx on; founds[i]: the driver's answer to the i-th lookup
RECURSIVE batch_loop(_, _, _, _, _, _)
batch_loop(values, props, founds, idx, lookup, events) ==
    IF idx > Len(values) THEN [out |-> Return(Dict(lookup)), events |-> events]
    ELSE IF idx > Len(props) THEN [out |-> Raise("IndexError"), events |-> events]
    ELSE IF get_html_elements(props[idx], founds[idx]).kind = "raise"
    THEN [out |-> get_html_elements(props[idx], founds[idx]),
          events |-> Append(events, [e |-> "find", lookup |-> helper_lookup(props[idx])])]
    ELSE batch_loop(values, props, founds, idx + 1,
                    SetItem(lookup, values[idx],
                            get_html_elements(props[idx], founds[idx]).val),
                    Append(events, [e |-> "find", lookup |-> helper_lookup(props[idx])]))

\* lines 434-438 with lookup None and the top-level document
create_element_lookup(key, props, found) ==
    batch_loop(<<key>>, <<props>>, <<found>>, 1, EmptyMap, <<>>)

\* create_batch_element_lookup without the length check
create_batch_element_lookup_unchecked(values, props, founds) ==
    batch_loop(values, props, founds, 1, EmptyMap, <<>>)

\* lines 440-446
create_batch_element_lookup(values, props, founds) ==
    IF equal_length(props, values).kind = "raise"
    THEN [out |-> equal_length(props, values), events |-> <<>>]
    ELSE batch_loop(values, props, founds, 1, EmptyMap, <<>>)

(***************************************************************************)
(* Errors objects (the failure descriptors) and the logger.  An Errors     *)
(* object has an identity (id); its message is kept as the template and    *)
(* the values formatted into it.                                           *)
(***************************************************************************)
Errors(id, input_key, uid, message) ==
    [t |-> "Errors", id |-> id, input_key |-> input_key, uid |-> uid, message |-> message]

\* an Errors object the caller built and passed as XPathLookupProps(error=...)
CallerError == Errors(0, "caller", <<"caller">>, [tpl |-> "caller"])

output(msg) == [e |-> "output", msg |-> msg]
output_err(err) == [e |-> "output_err", err |-> err]

(***************************************************************************)
(* The wait engine.  A readiness predicate is what the driver makes of it: *)
(* Poll(cond, lookup, readyAt) is falsy until second readyAt and truthy    *)
(* from then on (Never: it stays falsy); Throws(exc) raises when polled.   *)
(* WebDriverWait polls from second 0 up to the deadline props.delay.       *)
(***************************************************************************)
Never == -1
ReadyTimes == {Never} \cup (0..(MaxDelay + 1))

Poll(cond, lookup, readyAt) ==
    [kind |-> "poll", cond |-> cond, lookup |-> lookup, readyAt |-> readyAt]
Throws(exc) == [kind |-> "raise", exc |-> exc]

\* WebDriverWait(self.browser, delay).until(presence_function)
WebDriverWait_until(presence_function, delay) ==
    IF presence_function.kind = "raise" THEN Raise(presence_function.exc)
    ELSE IF presence_function.readyAt \in 0..delay THEN Return(PyBool(TRUE))
    ELSE Raise("TimeoutException")

wait_event(presence_function, delay) ==
    [e |-> "wait", fn |-> presence_function, delay |-> delay]

\* check_presence_helper without the test for a suppressed message
check_presence_helper_unsuppressed(presence_function, props, ttl) ==
    LET w == WebDriverWait_until(presence_function, props.delay)
        waited == <<wait_event(presence_function, props.delay)>>
    IN IF w.kind = "return"
       THEN [out |-> Return(PyBool(TRUE)),
             events |-> waited \o
                <<output(IF props.done_message = ""
                         THEN <<ttl, " is ready">>
                         ELSE <<props.done_message>>)>>]
       ELSE IF w.exc = "TimeoutException"
       THEN [out |-> Return(PyBool(FALSE)),
             events |-> waited \o <<output_err(props.error)>>]
       ELSE [out |-> w, events |-> waited]

\* lines 339-359
check_presence_helper(presence_function, props, ttl) ==
    LET w == WebDriverWait_until(presence_function, props.delay)
        waited == <<wait_event(presence_function, props.delay)>>
    IN IF w.kind = "return"
       THEN [out |-> Return(PyBool(TRUE)),
             events |-> waited \o
                (IF props.done_message # NONE
                 THEN <<output(IF props.done_message = ""
                               THEN <<ttl, " is ready">>
                               ELSE <<props.done_message>>)>>
                 ELSE <<>>)]
       ELSE IF w.exc = "TimeoutException"
       THEN [out |-> Return(PyBool(FALSE)),
             events |-> waited \o <<output_err(props.error)>>]
       ELSE [out |-> w, events |-> waited]

\* The wait operations below yield [props, out, events]: the instance as the
\* call leaves it, the call's outcome, and the driver and logger calls made.
\* n is the identity given to an Errors object the call builds.

\* check_presence_of_element building the descriptor on every call
check_presence_of_element_rebuild(props, n, ttl, readyAt) ==
    LET p1 == [props EXCEPT !.error =
                    Errors(n, ttl, <<"Element was not found - ", props.search_param>>,
                           [tpl |-> "could not be found",
                            key |-> props.search_param, title |-> ttl,
                            delay |-> props.delay])]
        h == check_presence_helper(
                 Poll("presence_of_element_located", get_element_lookup(p1), readyAt),
                 p1, ttl)
    IN [props |-> p1, out |-> h.out, events |-> h.events]

\* check_presence_of_element formatting the default delay into the message
check_presence_of_element_default_delay(props, n, ttl, readyAt) ==
    LET p1 == IF props.error.t = "None"
              THEN [props EXCEPT !.error =
                    Errors(n, ttl, <<"Element was not found - ", props.search_param>>,
                           [tpl |-> "could not be found",
                            key |-> props.search_param, title |-> ttl,
                            delay |-> DefaultDelay])]
              ELSE props
        h == check_presence_helper(
                 Poll("presence_of_element_located", get_element_lookup(p1), readyAt),
                 p1, ttl)
    IN [props |-> p1, out |-> h.out, events |-> h.events]

\* lines 394-411
check_presence_of_element(props, n, ttl, readyAt) ==
    LET p1 == IF props.error.t = "None"
              THEN [props EXCEPT !.error =
                    Errors(n, ttl, <<"Element was not found - ", props.search_param>>,
                           [tpl |-> "could not be found",
                            key |-> props.search_param, title |-> ttl,
                            delay |-> props.delay])]
              ELSE props
        h == check_presence_helper(
                 Poll("presence_of_element_located", get_element_lookup(p1), readyAt),
                 p1, ttl)
    IN [props |-> p1, out |-> h.out, events |-> h.events]

\* lines 413-432
check_absence_of_element(props, n, ttl, readyAt) ==
    LET p1 == IF props.error.t = "None"
              THEN [props EXCEPT !.error =
                    Errors(n, ttl, <<"Element was found - ", props.search_param>>,
                           [tpl |-> "was found after waiting",
                            key |-> props.search_param, title |-> ttl,
                            delay |-> props.delay])]
              ELSE props
        h == check_presence_helper(
                 Poll("invisibility_of_element_located", get_element_lookup(p1), readyAt),
                 p1, ttl)
    IN [props |-> p1, out |-> h.out, events |-> h.events]

\* lines 362-376.  lookups: the <<By kind, value>> pairs of the list props, in
\* order; main_prop is props[0] unless the caller gives one.  The composite
\* predicate _check_results is truthy once some lookup has a match.
check_presence_of_one(lookups, main_prop, n, ttl, readyAt) ==
    LET p1 == IF main_prop.error.t = "None"
              THEN [main_prop EXCEPT !.error =
                    Errors(n, ttl, <<"No Elements Found - ", main_prop.search_param>>,
                           [tpl |-> "None of the elements",
                            count |-> Len(lookups), key |-> main_prop.search_param])]
              ELSE main_prop
        h == check_presence_helper(
                 Poll("_check_results", lookups,
                      IF lookups = <<>> THEN Never ELSE readyAt), p1, ttl)
    IN [props |-> p1, out |-> h.out, events |-> h.events]

\* lines 378-392.  The lookup statements are the unbound x.find_elements, so
\* calling one with no driver raises TypeError at the first poll; with an
\* empty list _check_all_results is True at once.
check_presence_of_all(lookups, main_prop, n, ttl, readyAt) ==
    LET p1 == IF main_prop.error.t = "None"
              THEN [main_prop EXCEPT !.error =
                    Errors(n, ttl, <<"Some Elements Not Found - ", main_prop.search_param>>,
                           [tpl |-> "One or more of the elements",
                            count |-> Len(lookups), key |-> main_prop.search_param])]
              ELSE main_prop
        h == check_presence_helper(
                 IF lookups = <<>> THEN Poll("_check_all_results", lookups, 0)
                 ELSE Throws("TypeError"), p1, ttl)
    IN [props |-> p1, out |-> h.out, events |-> h.events]

(***************************************************************************)
(* The wait, poll by poll.  WebDriverWait.until calls the predicate, and   *)
(* if it is falsy sleeps one poll interval (one second here) and gives up  *)
(* once the deadline has passed.  A step yields [done, w, now]: whether    *)
(* until is over, its outcome, and the second of the next (or last) poll.  *)
(***************************************************************************)
\* one iteration of the loop, polling one second past the deadline
until_step_late(presence_function, delay, now) ==
    IF presence_function.kind = "raise"
    THEN [done |-> TRUE, w |-> Raise(presence_function.exc), now |-> now]
    ELSE IF presence_function.readyAt # Never /\ presence_function.readyAt <= now
    THEN [done |-> TRUE, w |-> Return(PyBool(TRUE)), now |-> now]
    ELSE IF now > delay
    THEN [done |-> TRUE, w |-> Raise("TimeoutException"), now |-> now]
    ELSE [done |-> FALSE, w |-> Return(PyNone), now |-> now + 1]

\* one iteration of the loop of WebDriverWait(self.browser, delay).until at second now
until_step(presence_function, delay, now) ==
    IF presence_function.kind = "raise"
    THEN [done |-> TRUE, w |-> Raise(presence_function.exc), now |-> now]
    ELSE IF presence_function.readyAt # Never /\ presence_function.readyAt <= now
    THEN [done |-> TRUE, w |-> Return(PyBool(TRUE)), now |-> now]
    ELSE IF now + 1 > delay
    THEN [done |-> TRUE, w |-> Raise("TimeoutException"), now |-> now]
    ELSE [done |-> FALSE, w |-> Return(PyNone), now |-> now + 1]

\* lines 354-359: check_presence_helper once until is over with outcome w
helper_finish(w, props, ttl) ==
    IF w.kind = "return"
    THEN [out |-> Return(PyBool(TRUE)),
          events |-> IF props.done_message # NONE
                     THEN <<output(IF props.done_message = ""
                                   THEN <<ttl, " is ready">>
                                   ELSE <<props.done_message>>)>>
                     ELSE <<>>]
    ELSE IF w.exc = "TimeoutException"
    THEN [out |-> Return(PyBool(FALSE)), events |-> <<output_err(props.error)>>]
    ELSE [out |-> w, events |-> <<>>]

(***************************************************************************)
(* The composite predicates.  A statement is what it returns when it is    *)
(* called (the elements driver.find_elements reports); the outcome of one  *)
(* evaluation is [result, calls]: the value returned and the indexes of    *)
(* the statements that were called, in call order.                         *)
(***************************************************************************)
\* Python truth value of a bool or a list
Truthy(v) == IF v.t = "bool" THEN v.b ELSE Len(v.items) > 0

MaxStatements == 3      \* most statements in one composite predicate

\* _check_results calling every statement, with no break
RECURSIVE check_results_no_break(_, _, _, _)
check_results_no_break(statements, i, result, calls) ==
    IF i > Len(statements) THEN [result |-> result, calls |-> calls]
    ELSE check_results_no_break(statements, i + 1,
            IF Truthy(result) THEN result ELSE statements[i],
            Append(calls, i))

\* lines 558-562: the loop from statement i on
RECURSIVE check_results_loop(_, _, _, _)
check_results_loop(statements, i, result, calls) ==
    IF i > Len(statements) THEN [result |-> result, calls |-> calls]
    ELSE IF Truthy(result)                      \* result or statement(): not called
         THEN [result |-> result, calls |-> calls]
    ELSE IF Truthy(statements[i])
         THEN [result |-> statements[i], calls |-> Append(calls, i)]     \* break
    ELSE check_results_loop(statements, i + 1, statements[i], Append(calls, i))

\* lines 555-562
_check_results(statements) ==
    check_results_loop(statements, 1, PyBool(FALSE), <<>>)

(***************************************************************************)
(* Navigation: load_frame_elements, restart_browser, browse_to_url.        *)
(***************************************************************************)
Titles == {"A", "B"}
BlankTitle == ""                      \* the title of a freshly started browser
TopLevel == 0                         \* the driver's top-level browsing context

\* what the driver reports for by_tag='frame' / by_tag='iframe'
FrameElems(n) == [i \in 1..n |-> Elem(i)]
IFrameElems(n) == [i \in 1..n |-> Elem(MaxFrames + i)]
FramesFound ==
    {Raise("NoSuchElementException")} \cup {Return(FrameElems(n)) : n \in 0..MaxFrames}
IFramesFound ==
    {Raise("NoSuchElementException")} \cup {Return(IFrameElems(n)) : n \in 0..MaxFrames}
OnPage(found) == IF found.kind = "raise" THEN 0 ELSE Len(found.val)

\* outcome of one WebDriverWait(...).until(frame_to_be_available_and_switch_to_it(frame))
SwitchOutcomes == {"ok", "StaleElementReferenceException", "TimeoutException"}

FrameProps(tag) == GetElementProps(NONE, NONE, NONE, tag, FALSE, NONE, FALSE, FALSE)

find_event(props) == [e |-> "find", lookup |-> helper_lookup(props)]
switch_event(frame, delay) == [e |-> "switch", frame |-> frame, delay |-> delay]

\* the context after trying frames[1..k] in turn from context ctx
RECURSIVE ContextAfter(_, _, _, _)
ContextAfter(frames, switches, k, ctx) ==
    IF k = 0 THEN ctx
    ELSE IF switches[k] = "ok" THEN frames[k].id
    ELSE ContextAfter(frames, switches, k - 1, ctx)

\* lines 512-526: yields [out, events, context].  frames / iframes: the driver's
\* answers to the two lookups; switches[k]: the outcome of the k-th switch.
load_frame_elements(delay, frames, iframes, switches, ctx) ==
    LET r1 == get_html_elements(FrameProps("frame"), frames)
        r2 == get_html_elements(FrameProps("iframe"), iframes)
        e1 == <<find_event(FrameProps("frame"))>>
        e2 == e1 \o <<find_event(FrameProps("iframe"))>>
    IN IF r1.kind = "raise" THEN [out |-> r1, events |-> e1, context |-> ctx]
       ELSE IF r2.kind = "raise" THEN [out |-> r2, events |-> e2, context |-> ctx]
       ELSE LET all == listify(r1.val) \o listify(r2.val)
            IN IF Len(all) = 0
               THEN [out |-> Return(PyBool(TRUE)), events |-> e2, context |-> ctx]
               ELSE [out |-> Return(PyNone),
                     events |-> e2 \o [k \in 1..Len(all) |-> switch_event(all[k], delay)],
                     context |-> ContextAfter(all, switches, Len(all), ctx)]

\* The session's driver state: [browser, quitted, context, title].
\* lines 277-280: yields [out, events, driver]; chromeOk: webdriver.Chrome(...) starts.
restart_browser(driver, chromeOk) ==
    LET q == [driver EXCEPT !.quitted = @ \cup {driver.browser}]
    IN IF chromeOk
       THEN [out |-> Return(PyNone),
             events |-> <<[e |-> "quit", handle |-> driver.browser],
                          [e |-> "Chrome", handle |-> driver.browser + 1]>>,
             driver |-> [q EXCEPT !.browser = driver.browser + 1,
                                  !.context = TopLevel, !.title = BlankTitle]]
       ELSE [out |-> Raise("WebDriverException"),
             events |-> <<[e |-> "quit", handle |-> driver.browser]>>,
             driver |-> q]

\* selenium.common.exceptions: the subclasses of WebDriverException
IsWebDriverException(exc) ==
    exc \in {"WebDriverException", "TimeoutException", "NoSuchElementException",
             "StaleElementReferenceException"}

\* BrowseReq(url, props, present_function): props <<>> takes any_element_check();
\* present_function is <<>> or <<b>>, b the value the predicate returns.
BrowseReq(props, present_function) ==
    [props |-> IF props # <<>> THEN props[1] ELSE any_element_check,
     present_function |-> present_function]

default_error == Errors(0, "url", <<"Web Page Load Failed - ", "url">>,
                        [tpl |-> "could not be loaded", url |-> "url"])

\* lines 320-327: the handlers of the try block.  exc: the exception raised,
\* ev: the events so far, driver: the driver state when it was raised.
browse_except(req, env, exc, ev, driver) ==
    IF IsWebDriverException(exc)
    THEN [out |-> IF env.chromeOk THEN Return(PyBool(FALSE))
                  ELSE restart_browser(driver, FALSE).out,
          events |-> ev \o restart_browser(driver, env.chromeOk).events,
          driver |-> restart_browser(driver, env.chromeOk).driver,
          props |-> req.props]
    ELSE [out |-> Return(PyBool(FALSE)),
          events |-> ev \o <<output_err(default_error)>>,
          driver |-> driver, props |-> req.props]

\* the result of a wait w run from browse_to_url
browse_waited(w, ev, driver) ==
    [out |-> w.out, events |-> ev \o w.events, driver |-> driver, props |-> w.props]

\* browse_ready handing the predicate to check_presence_helper with req.props
browse_ready_via_helper(req, env, ev, top, n) ==
    browse_waited(
        [props |-> req.props,
         out |-> check_presence_helper(
                    Poll("present_function", <<>>,
                         IF req.present_function # <<>> /\ req.present_function[1]
                         THEN 0 ELSE Never), req.props, top.title).out,
         events |-> check_presence_helper(
                    Poll("present_function", <<>>,
                         IF req.present_function # <<>> /\ req.present_function[1]
                         THEN 0 ELSE Never), req.props, top.title).events],
        ev \o <<[e |-> "default_content"]>>, top)

\* browse_ready evaluating the predicate before switch_to.default_content()
browse_ready_before_top(req, env, ev, top, n) ==
    IF req.present_function # <<>>
    THEN [out |-> Return(PyBool(req.present_function[1])),
          events |-> ev \o <<[e |-> "present_function"], [e |-> "default_content"]>>,
          driver |-> top, props |-> req.props]
    ELSE IF ~HasAttr(req.props, "check_absence")
    THEN [out |-> Raise("AttributeError"),
          events |-> ev \o <<[e |-> "default_content"]>>,
          driver |-> top, props |-> req.props]
    ELSE browse_waited(
            IF req.props.check_absence
            THEN check_absence_of_element(req.props, n, top.title, env.readyAt)
            ELSE check_presence_of_element(req.props, n, top.title, env.readyAt),
            ev \o <<[e |-> "default_content"]>>, top)

\* lines 329-336, after the try block went through.  top: the driver state
\* after switch_to.default_content().
browse_ready(req, env, ev, top, n) ==
    IF req.present_function # <<>>
    THEN [out |-> Return(PyBool(req.present_function[1])),
          events |-> ev \o <<[e |-> "default_content"], [e |-> "present_function"]>>,
          driver |-> top, props |-> req.props]
    ELSE IF ~HasAttr(req.props, "check_absence")
    THEN [out |-> Raise("AttributeError"),
          events |-> ev \o <<[e |-> "default_content"]>>,
          driver |-> top, props |-> req.props]
    ELSE browse_waited(
            IF req.props.check_absence
            THEN check_absence_of_element(req.props, n, top.title, env.readyAt)
            ELSE check_presence_of_element(req.props, n, top.title, env.readyAt),
            ev \o <<[e |-> "default_content"]>>, top)

\* lines 319-336, after browser.get(url) returned.  lf: what load_frame_elements(delay=5)
\* did; loaded: the driver state on the new page.
browse_loaded(req, env, lf, loaded, n) ==
    IF lf.out.kind = "raise"
    THEN browse_except(req, env, lf.out.exc, <<[e |-> "get"]>> \o lf.events,
                       [loaded EXCEPT !.context = lf.context])
    ELSE browse_ready(req, env, <<[e |-> "get"]>> \o lf.events,
                      [loaded EXCEPT !.context = TopLevel], n)

\* lines 297-336: yields [out, events, driver, props].  env: what the driver does:
\* get ("ok" or the exception browser.get raises), title (of the loaded page),
\* chromeOk, frames, iframes, switches, readyAt.  n: identity for a new Errors.
browse_to_url(req, env, driver, n) ==
    IF env.get # "ok"
    THEN browse_except(req, env, env.get, <<[e |-> "get"]>>, driver)
    ELSE browse_loaded(req, env,
            load_frame_elements(5, env.frames, env.iframes, env.switches, TopLevel),
            [driver EXCEPT !.context = TopLevel, !.title = env.title], n)

(***************************************************************************)
(* Cookies: load_cookies.  The cookie file is [kind |-> "missing"],        *)
(* [kind |-> "corrupt"] (pickle.load raises on it) or a snapshot of        *)
(* cookies; a call yields [out, events, file], file being the file as the  *)
(* call leaves it.                                                         *)
(***************************************************************************)
MaxCookies == 2     \* most cookies in one snapshot

MissingFile == [kind |-> "missing"]
CorruptFile == [kind |-> "corrupt"]
Snapshot(n) == [kind |-> "snapshot", cookies |-> [i \in 1..n |-> i]]
CookieFiles == {MissingFile, CorruptFile} \cup {Snapshot(n) : n \in 0..MaxCookies}

add_cookie_event(c) == [e |-> "add_cookie", cookie |-> c]

\* Files.remove_if_exists: the file is gone afterwards
remove_if_exists(file) == MissingFile

\* load_cookies leaving the file in place when it cannot be deserialized
load_cookies_keep_file(b, file, addOk) ==
    IF b.out.kind = "raise" THEN [out |-> b.out, events |-> b.events, file |-> file]
    ELSE IF ~b.out.val.b
    THEN [out |-> Return(PyBool(FALSE)), events |-> b.events, file |-> file]
    ELSE IF file.kind # "snapshot"
    THEN [out |-> Return(PyBool(FALSE)),
          events |-> b.events \o <<[e |-> "open"]>>,
          file |-> file]
    ELSE IF addOk \/ file.cookies = <<>>
    THEN [out |-> Return(PyBool(TRUE)),
          events |-> b.events \o <<[e |-> "open"], [e |-> "pickle.load"]>>
                        \o [i \in 1..Len(file.cookies) |-> add_cookie_event(file.cookies[i])],
          file |-> file]
    ELSE [out |-> Raise("WebDriverException"),
          events |-> b.events \o <<[e |-> "open"], [e |-> "pickle.load"],
                                   add_cookie_event(file.cookies[1])>>,
          file |-> file]

\* lines 190-202.  b: what browse_to_url(BrowseReq(url, props=load_check)) did;
\* addOk: the driver accepts the cookies (otherwise the first add_cookie raises).
load_cookies(b, file, addOk) ==
    IF b.out.kind = "raise" THEN [out |-> b.out, events |-> b.events, file |-> file]
    ELSE IF ~b.out.val.b
    THEN [out |-> Return(PyBool(FALSE)), events |-> b.events, file |-> file]
    ELSE IF file.kind # "snapshot"
    THEN [out |-> Return(PyBool(FALSE)),
          events |-> b.events \o <<[e |-> "open"], [e |-> "remove_if_exists"]>>,
          file |-> remove_if_exists(file)]
    ELSE IF addOk \/ file.cookies = <<>>
    THEN [out |-> Return(PyBool(TRUE)),
          events |-> b.events \o <<[e |-> "open"], [e |-> "pickle.load"]>>
                        \o [i \in 1..Len(file.cookies) |-> add_cookie_event(file.cookies[i])],
          file |-> file]
    ELSE [out |-> Raise("WebDriverException"),
          events |-> b.events \o <<[e |-> "open"], [e |-> "pickle.load"],
                                   add_cookie_event(file.cookies[1])>>,
          file |-> file]

(***************************************************************************)
(* Sessions and their ChromeOptions.  An options object is its argument    *)
(* list (ChromeOptions.arguments), in the order the arguments were added.   *)
(***************************************************************************)
MaxArgs == 3        \* most occurrences of one argument in an argument list

Point1 == "100,50"                    \* SeleniumBrowser.default_pos
Point2 == "-32000,-32000"             \* the off-screen position
Points == {Point1, Point2}
get_chrome_position(point) == <<"--window-position=", point>>

ArgNames ==
    {<<"headless">>, <<"--headless">>, <<"ignore-certificate-errors">>,
     <<"--disable-extensions">>, <<"--disable-gpu">>, <<"--no-sandbox">>}
        \cup {get_chrome_position(pt) : pt \in Points}

\* webdriver.ChromeOptions(): a new object with no argument
ChromeOptions == <<>>

\* ChromeOptions.add_argument
add_argument(args, a) == Append(args, a)

\* how many times the argument a occurs in args
Count(args, a) == Cardinality({idx \in 1..Len(args) : args[idx] = a})

\* Arrays.remove_indexes(array, indexes): the items at the indexes leave the
\* list, the others stay in their order
RECURSIVE remove_indexes(_, _)
remove_indexes(array, indexes) ==
    IF array = <<>> THEN <<>>
    ELSE remove_indexes(SubSeq(array, 1, Len(array) - 1), indexes)
            \o (IF Len(array) \in indexes THEN <<>> ELSE <<array[Len(array)]>>)

\* lines 244-245: while 'headless' in arguments: arguments.remove('headless')
remove_headless(args) ==
    remove_indexes(args, {idx \in 1..Len(args) : args[idx] = <<"headless">>})

\* ChromeOptions.set_headless(value) of the driver library: True appends
\* '--headless'; False rebuilds the list from the set of its arguments
\* less '--headless' (each argument once, here at its first place)
set_headless(args, value) ==
    IF value THEN add_argument(args, <<"--headless">>)
    ELSE remove_indexes(args,
            {idx \in 1..Len(args) :
                \/ args[idx] = <<"--headless">>
                \/ \E before \in 1..(idx - 1) : args[before] = args[idx]})

\* the indexes of the arguments that contain 'window-position' (lines 257-262)
remove_idxs(args) == {idx \in 1..Len(args) : args[idx][1] = "--window-position="}

\* lines 256-264: every argument that contains 'window-position' is removed
clear_window_position(args) == remove_indexes(args, remove_idxs(args))

\* the ChromeOptions a caller passes as chrome_options: a new object, or one
\* on which the caller has already set window positions
OwnOptions ==
    {ChromeOptions,
     <<get_chrome_position(Point2), <<"--disable-gpu">>, get_chrome_position(Point1)>>}

\* lines 71-78: SeleniumBrowserProps.__init__ on the options object it is given
SeleniumBrowserProps(chrome_options, headless) ==
    add_argument(add_argument(add_argument(add_argument(
        IF headless THEN add_argument(chrome_options, <<"headless">>) ELSE chrome_options,
        <<"ignore-certificate-errors">>), <<"--disable-extensions">>),
        <<"--disable-gpu">>), <<"--no-sandbox">>)

\* The window operations yield [args, out, driver]: the argument list of
\* self.options, the call's outcome and the session's driver state.
\* r: what restart_browser did, or <<>> when it was not called.
window_result(args, driver, r) ==
    IF r = <<>> THEN [args |-> args, out |-> Return(PyNone), driver |-> driver]
    ELSE [args |-> args, out |-> r[1].out, driver |-> r[1].driver]

\* move_reload without its first statement: the position is appended to
\* whatever the list holds
move_reload_no_clear(args, driver, point, reload, chromeOk) ==
    IF reload
    THEN window_result(add_argument(args, get_chrome_position(point)),
                       driver, <<restart_browser(driver, chromeOk)>>)
    ELSE window_result(args, driver, <<>>)

\* lines 225-233
move_reload(args, driver, point, reload, chromeOk) ==
    IF reload
    THEN window_result(add_argument(clear_window_position(args), get_chrome_position(point)),
                       driver, <<restart_browser(driver, chromeOk)>>)
    ELSE window_result(clear_window_position(args), driver, <<>>)

\* lines 208-216, called by off_screen (pos (-32000, -32000)), on_screen, tiny
\* and normal (pos None, the default position): move_reload, and then
\* set_window_size when move_reload returned
move_screen_helper(args, driver, pos, reload, chromeOk) ==
    move_reload(args, driver, pos, reload, chromeOk)

\* lines 241-254; tiny() and normal() end in move_reload(default_pos, False)
show_browser(args, driver, chromeOk) ==
    IF chromeOk
    THEN window_result(
            move_reload(
                add_argument(
                    set_headless(remove_headless(clear_window_position(args)),
                                 FALSE),
                    get_chrome_position(Point1)),
                driver, Point1, FALSE, TRUE).args,
            driver, <<restart_browser(driver, TRUE)>>)
    ELSE window_result(
            add_argument(
                set_headless(remove_headless(clear_window_position(args)),
                             FALSE),
                get_chrome_position(Point1)),
            driver, <<restart_browser(driver, FALSE)>>)

\* lines 266-271
hide_browser(args, driver, chromeOk) ==
    window_result(
        set_headless(add_argument(clear_window_position(args), <<"headless">>), TRUE),
        driver, <<restart_browser(driver, chromeOk)>>)

(***************************************************************************)
(* The caller's side of a call: `last` holds the operation, its inputs,    *)
(* its outcome and the driver and logger calls it made, until the caller   *)
(* takes the result.                                                       *)
(***************************************************************************)
Idle == [op |-> "idle"]
Driver == [browser |-> browser, quitted |-> quitted, context |-> context, title |-> title]

TakeResult ==
    /\ last.op # "idle"
    /\ last' = Idle
    /\ UNCHANGED <<specs, errCount, title, browser, quitted, context, options, sessions>>

(***************************************************************************)
(* Descriptor operations as calls.                                         *)
(***************************************************************************)
\* XPathLookupProps(props=d) and d.get_ref()
Translate ==
    /\ last.op = "idle"
    /\ \E d \in Descriptors :
          last' = [op |-> "translate", props |-> d,
                   out |-> XPathLookupProps(ByXPath, "//", <<d>>, DefaultDelay, "", PyNone),
                   ref |-> get_ref(d)]
    /\ UNCHANGED <<specs, errCount, title, browser, quitted, context, options, sessions>>

\* self.get_html_elements(d) on the top-level document
GetHtmlElements ==
    /\ last.op = "idle"
    /\ \E d \in Descriptors, found \in Found :
          last' = [op |-> "get_html_elements", props |-> d, found |-> found,
                   find |-> helper_lookup(d),
                   out |-> get_html_elements(d, found)]
    /\ UNCHANGED <<specs, errCount, title, browser, quitted, context, options, sessions>>

\* the keys, descriptors and driver answers of a batch
BatchKeys == {"a", "b"}
BatchProps == {GetElementProps(NONE, NONE, "login", NONE, FALSE, NONE, FALSE, FALSE),
               GetElementProps(NONE, NONE, NONE, "frame", FALSE, "href", FALSE, TRUE)}
BatchFound == {Return(<<>>), Return(<<Elem(1), Elem(3)>>)}

\* self.create_batch_element_lookup(values, props)
CreateBatchElementLookup ==
    /\ last.op = "idle"
    /\ \E n \in 0..MaxBatch, m \in 0..MaxBatch :
          \E values \in [1..n -> BatchKeys], props \in [1..m -> BatchProps],
             founds \in [1..m -> BatchFound] :
             \E r \in {create_batch_element_lookup(values, props, founds)} :
                last' = [op |-> "create_batch_element_lookup", values |-> values,
                         props |-> props, founds |-> founds,
                         out |-> r.out, events |-> r.events]
    /\ UNCHANGED <<specs, errCount, title, browser, quitted, context, options, sessions>>

\* self.create_element_lookup(key, props)
CreateElementLookup ==
    /\ last.op = "idle"
    /\ \E key \in BatchKeys, props \in BatchProps, found \in BatchFound :
          \E r \in {create_element_lookup(key, props, found)} :
             last' = [op |-> "create_element_lookup", values |-> <<key>>,
                      props |-> <<props>>, founds |-> <<found>>,
                      out |-> r.out, events |-> r.events]
    /\ UNCHANGED <<specs, errCount, title, browser, quitted, context, options, sessions>>

\* what a lookup statement of the composite may return: no, one or two matches
Answers == {List(<<>>), List(<<Elem(1)>>), List(<<Elem(2), Elem(3)>>)}

\* one evaluation of SeleniumBrowser._check_results(statements)
CheckResults ==
    /\ last.op = "idle"
    /\ \E n \in 0..MaxStatements :
          \E statements \in [1..n -> Answers] :
             \E r \in {_check_results(statements)} :
                last' = [op |-> "_check_results", statements |-> statements,
                         out |-> Return(r.result), calls |-> r.calls]
    /\ UNCHANGED <<specs, errCount, title, browser, quitted, context, options, sessions>>

(***************************************************************************)
(* Waits as calls on the instances the caller holds.                       *)
(***************************************************************************)
SpecIds == {1, 2}
SpecLists == UNION {[1..n -> SpecIds] : n \in 0..2}
Lookups(list) == [i \in 1..Len(list) |-> get_element_lookup(specs[list[i]])]

\* the call's effect on instance s and on `last`
Waited(name, s, readyAt, c) ==
    /\ specs' = [specs EXCEPT ![s] = c.props]
    /\ errCount' = IF c.props.error # specs[s].error THEN errCount + 1 ELSE errCount
    /\ last' = [op |-> name, s |-> s, pre |-> specs[s], readyAt |-> readyAt,
                out |-> c.out, events |-> c.events]
    /\ UNCHANGED <<title, browser, quitted, context, options, sessions>>

CheckPresenceOfElement ==
    /\ last.op = "idle"
    /\ errCount < MaxErrors
    /\ \E s \in SpecIds, readyAt \in ReadyTimes :
          Waited("check_presence_of_element", s, readyAt,
                 check_presence_of_element(specs[s], errCount + 1, title, readyAt))

CheckAbsenceOfElement ==
    /\ last.op = "idle"
    /\ errCount < MaxErrors
    /\ \E s \in SpecIds, readyAt \in ReadyTimes :
          Waited("check_absence_of_element", s, readyAt,
                 check_absence_of_element(specs[s], errCount + 1, title, readyAt))

\* main = 0: the caller gives no main_prop, so it is props[0]
CheckPresenceOfOne ==
    /\ last.op = "idle"
    /\ errCount < MaxErrors
    /\ \E list \in SpecLists, main \in {0} \cup SpecIds, readyAt \in ReadyTimes :
          /\ main = 0 => list # <<>>
          /\ LET s == IF main = 0 THEN list[1] ELSE main
             IN Waited("check_presence_of_one", s, readyAt,
                       check_presence_of_one(Lookups(list), specs[s], errCount + 1,
                                             title, readyAt))

CheckPresenceOfAll ==
    /\ last.op = "idle"
    /\ errCount < MaxErrors
    /\ \E list \in SpecLists, main \in SpecIds \cup {0}, readyAt \in {0} :
          /\ main = 0 => list # <<>>
          /\ LET s == IF main = 0 THEN list[1] ELSE main
             IN Waited("check_presence_of_all", s, readyAt,
                       check_presence_of_all(Lookups(list), specs[s], errCount + 1,
                                             title, readyAt))

(***************************************************************************)
(* A wait as a sequence of polls: check_presence_helper is entered, until  *)
(* polls, the helper returns.                                              *)
(***************************************************************************)
\* self.check_presence_helper(ec.presence_of_element_located(lookup), specs[s]) is entered
BeginWait ==
    /\ last.op = "idle"
    /\ \E s \in SpecIds, readyAt \in ReadyTimes :
          last' = [op |-> "until", s |-> s, pre |-> specs[s], readyAt |-> readyAt,
                   fn |-> Poll("presence_of_element_located",
                               get_element_lookup(specs[s]), readyAt),
                   now |-> 0, polls |-> 0]
    /\ UNCHANGED <<specs, errCount, title, browser, quitted, context, options, sessions>>

\* one poll; when until is over the helper runs to its return
PollOnce ==
    /\ last.op = "until"
    /\ \E st \in {until_step(last.fn, last.pre.delay, last.now)} :
          IF st.done
          THEN \E h \in {helper_finish(st.w, last.pre, title)} :
                  last' = [op |-> "check_presence_helper", s |-> last.s,
                           pre |-> last.pre, readyAt |-> last.readyAt, fn |-> last.fn,
                           now |-> st.now, polls |-> last.polls + 1,
                           out |-> h.out, events |-> h.events]
          ELSE last' = [last EXCEPT !.now = st.now, !.polls = @ + 1]
    /\ UNCHANGED <<specs, errCount, title, browser, quitted, context, options, sessions>>

\* the helper's caller takes the result
ReturnFromWait ==
    /\ last.op = "check_presence_helper"
    /\ last' = Idle
    /\ UNCHANGED <<specs, errCount, title, browser, quitted, context, options, sessions>>

(***************************************************************************)
(* Navigation as calls.                                                    *)
(***************************************************************************)
SwitchSeqs(n) == [1..n -> SwitchOutcomes]

\* what the driver does during one browse_to_url
BrowseEnv(g, t, ok, f, i, sw, r) ==
    [get |-> g, title |-> t, chromeOk |-> ok, frames |-> f, iframes |-> i,
     switches |-> sw, readyAt |-> r]

\* the call's effect on the session, the instance it waited on, and `last`
Browsed(p, req, env) ==
    \E b \in {browse_to_url(req, env, Driver, errCount + 1)} :
       /\ b.driver.browser <= MaxHandles
       /\ last' = [op |-> "browse_to_url", p |-> p, req |-> req, env |-> env,
                   pre |-> Driver, out |-> b.out, events |-> b.events]
       /\ specs' = IF p = 0 THEN specs ELSE [specs EXCEPT ![p] = b.props]
       /\ errCount' = IF b.props.error # req.props.error THEN errCount + 1 ELSE errCount
       /\ browser' = b.driver.browser
       /\ quitted' = b.driver.quitted
       /\ context' = b.driver.context
       /\ title' = b.driver.title
       /\ UNCHANGED <<options, sessions>>

\* p = 0: the request is built with no specification
BrowseToUrl ==
    /\ last.op = "idle"
    /\ errCount < MaxErrors
    /\ \E p \in {0, 1}, pf \in {<<>>, <<TRUE>>, <<FALSE>>} :
          LET req == BrowseReq(IF p = 0 THEN <<>> ELSE <<specs[p]>>, pf)
          IN \/ \E g \in {"WebDriverException", "Exception"}, ok \in BOOLEAN :
                  Browsed(p, req, BrowseEnv(g, BlankTitle, ok, Return(<<>>), Return(<<>>),
                                            <<>>, Never))
             \/ \E t \in {"A"}, f \in FramesFound, i \in IFramesFound,
                   r \in IF pf = <<>> THEN {Never, 0} ELSE {Never} :
                  \E sw \in SwitchSeqs(OnPage(f) + OnPage(i)) :
                      Browsed(p, req, BrowseEnv("ok", t, TRUE, f, i, sw, r))

\* self.load_frame_elements() with its default delay
LoadFrameElements ==
    /\ last.op = "idle"
    /\ \E f \in FramesFound, i \in IFramesFound :
          \E sw \in SwitchSeqs(OnPage(f) + OnPage(i)) :
            \E lf \in {load_frame_elements(20, f, i, sw, context)} :
               /\ last' = [op |-> "load_frame_elements", frames |-> f, iframes |-> i,
                           switches |-> sw, pre |-> Driver,
                           out |-> lf.out, events |-> lf.events]
               /\ context' = lf.context
    /\ UNCHANGED <<specs, errCount, title, browser, quitted, options, sessions>>

\* self.load_cookies(url, specs[1], file)
LoadCookies ==
    /\ last.op = "idle"
    /\ errCount < MaxErrors
    /\ \E file \in CookieFiles, addOk \in BOOLEAN,
          env \in {BrowseEnv("Exception", BlankTitle, TRUE, Return(<<>>), Return(<<>>),
                             <<>>, Never)}
                  \cup {BrowseEnv("ok", "A", TRUE, Return(FrameElems(n)), Return(IFrameElems(2)),
                                  [k \in 1..(n + 2) |-> "ok"], r) :
                            n \in {0, 2}, r \in {Never, 0}} :
          /\ (file.kind # "snapshot" \/ file.cookies = <<>>) => addOk
          /\ \E b \in {browse_to_url(BrowseReq(<<specs[1]>>, <<>>), env, Driver,
                                      errCount + 1)} :
                \E c \in {load_cookies(b, file, addOk)} :
                   /\ last' = [op |-> "load_cookies", env |-> env, file |-> file,
                               pre |-> Driver, browsed |-> b.out,
                               out |-> c.out, events |-> c.events, left |-> c.file]
                   /\ specs' = [specs EXCEPT ![1] = b.props]
                   /\ errCount' = IF b.props.error # specs[1].error
                                   THEN errCount + 1 ELSE errCount
                   /\ browser' = b.driver.browser
                   /\ quitted' = b.driver.quitted
                   /\ context' = b.driver.context
                   /\ title' = b.driver.title
                   /\ UNCHANGED <<options, sessions>>

(***************************************************************************)
(* Sessions as calls.  Object 0 is the ChromeOptions object that the       *)
(* default value of chrome_options was evaluated to when the class was     *)
(* defined; object i is one the caller made for session i.                 *)
(***************************************************************************)
SessionIds == {1, 2}
DefaultOptions == 0
NoSession == [state |-> "none"]
NewDriver == [browser |-> 1, quitted |-> {}, context |-> TopLevel, title |-> BlankTitle]

\* the argument list of session i's options
Arguments(i) == options[sessions[i].options]

\* a call on session i with the inputs req that leaves its options object with args and its driver as driver
Called(name, i, req, c) ==
    /\ c.driver.browser <= MaxHandles
    /\ \A a \in ArgNames : Count(c.args, a) <= MaxArgs
    /\ options' = [options EXCEPT ![sessions[i].options] = c.args]
    /\ sessions' = [sessions EXCEPT ![i].driver = c.driver]
    /\ last' = [op |-> name, i |-> i, req |-> req, pre |-> options, out |-> c.out]
    /\ UNCHANGED <<specs, errCount, title, browser, quitted, context>>

\* SeleniumBrowserProps(main_module_path, errors[, chrome_options=...][, headless=...])
BuildProps ==
    /\ last.op = "idle"
    /\ \E i \in SessionIds, own \in BOOLEAN, headless \in BOOLEAN :
          /\ sessions[i] = NoSession
          /\ \E o \in {IF own THEN i ELSE DefaultOptions} :
                /\ options' = [options EXCEPT ![o] = SeleniumBrowserProps(options[o], headless)]
                /\ sessions' = [sessions EXCEPT ![i] = [state |-> "props", options |-> o,
                                                        driver |-> NewDriver]]
                /\ last' = [op |-> "SeleniumBrowserProps", i |-> i, pre |-> options,
                            out |-> Return(PyNone)]
    /\ UNCHANGED <<specs, errCount, title, browser, quitted, context>>

\* SeleniumBrowserProps(main_module_path, errors, chrome_options=given[, headless=...])
\* for the first session, with the caller's own options object
CallerProps ==
    /\ last.op = "idle"
    /\ sessions[1] = NoSession
    /\ \E headless \in BOOLEAN, given \in OwnOptions :
          /\ options' = [options EXCEPT ![1] = SeleniumBrowserProps(given, headless)]
          /\ sessions' = [sessions EXCEPT ![1] = [state |-> "props", options |-> 1,
                                                  driver |-> NewDriver]]
          /\ last' = [op |-> "SeleniumBrowserProps", i |-> 1,
                      pre |-> [options EXCEPT ![1] = given], out |-> Return(PyNone)]
    /\ UNCHANGED <<specs, errCount, title, browser, quitted, context>>

\* SeleniumBrowser(props)
StartSession ==
    /\ last.op = "idle"
    /\ \E i \in SessionIds :
          /\ sessions[i].state = "props"
          /\ sessions' = [sessions EXCEPT ![i].state = "started"]
          /\ last' = [op |-> "SeleniumBrowser", i |-> i, pre |-> options,
                      out |-> Return(PyNone)]
    /\ UNCHANGED <<specs, errCount, title, browser, quitted, context, options>>

ShowBrowser ==
    /\ last.op = "idle"
    /\ \E i \in SessionIds, chromeOk \in BOOLEAN :
          /\ sessions[i].state = "started"
          /\ Called("show_browser", i, <<>>,
                    show_browser(Arguments(i), sessions[i].driver, chromeOk))

HideBrowser ==
    /\ last.op = "idle"
    /\ \E i \in SessionIds, chromeOk \in BOOLEAN :
          /\ sessions[i].state = "started"
          /\ Called("hide_browser", i, <<>>,
                    hide_browser(Arguments(i), sessions[i].driver, chromeOk))

MoveReload ==
    /\ last.op = "idle"
    /\ \E i \in SessionIds, point \in Points, reload \in BOOLEAN, chromeOk \in BOOLEAN :
          /\ sessions[i].state = "started"
          /\ ~reload => chromeOk
          /\ Called("move_reload", i, [point |-> point, reload |-> reload],
                    move_reload(Arguments(i), sessions[i].driver, point, reload, chromeOk))

\* off_screen(reload), on_screen(reload), tiny(reload), normal(reload)
MoveScreenHelper ==
    /\ last.op = "idle"
    /\ \E i \in SessionIds, pos \in Points, reload \in BOOLEAN, chromeOk \in BOOLEAN :
          /\ sessions[i].state = "started"
          /\ ~reload => chromeOk
          /\ Called("move_screen_helper", i, [point |-> pos, reload |-> reload],
                    move_screen_helper(Arguments(i), sessions[i].driver, pos, reload,
                                       chromeOk))

ClearWindowPosition ==
    /\ last.op = "idle"
    /\ \E i \in SessionIds :
          /\ sessions[i].state = "started"
          /\ Called("clear_window_position", i, <<>>,
                    window_result(clear_window_position(Arguments(i)),
                                  sessions[i].driver, <<>>))

(***************************************************************************)
(* Specifications.                                                         *)
(***************************************************************************)
InitSession ==
    /\ errCount = 0
    /\ title = BlankTitle
    /\ browser = 1
    /\ quitted = {}
    /\ context = TopLevel
    /\ last = Idle
    /\ options = [o \in {DefaultOptions} \cup SessionIds |-> ChromeOptions]
    /\ sessions = [i \in SessionIds |-> NoSession]

Init ==
    /\ specs = [s \in SpecIds |-> any_element_check]
    /\ InitSession

\* descriptors: translation and retrieval
NextLookup ==
    \/ Translate
    \/ GetHtmlElements
    \/ CheckResults
    \/ CreateElementLookup
    \/ CreateBatchElementLookup
    \/ TakeResult

SpecLookup == Init /\ [][NextLookup]_vars

\* the instances a caller may hold when it starts waiting
WaitLookups == {<<ByXPath, "//*">>, <<ById, "login">>}
InitWait ==
    /\ specs \in [SpecIds -> {XPathLookupProps(l[1], l[2], <<>>, d, dm, err).val :
                        l \in WaitLookups, d \in 1..MaxDelay,
                        dm \in {NONE, "", "loaded"}, err \in {PyNone, CallerError}}]
    /\ specs[2].done_message = "" /\ specs[2].error = PyNone
    /\ specs[2].html_element_type = ById /\ specs[2].delay = 1
    /\ errCount = 0
    /\ title \in Titles
    /\ browser = 1
    /\ quitted = {}
    /\ context = TopLevel
    /\ last = Idle
    /\ options = [o \in {DefaultOptions} \cup SessionIds |-> ChromeOptions]
    /\ sessions = [i \in SessionIds |-> NoSession]

NextWait ==
    \/ CheckPresenceOfElement
    \/ CheckAbsenceOfElement
    \/ CheckPresenceOfOne
    \/ CheckPresenceOfAll
    \/ TakeResult

SpecWait == InitWait /\ [][NextWait]_vars

\* a wait, poll by poll; the polling loop runs in the caller's thread
NextPoll ==
    \/ BeginWait
    \/ PollOnce
    \/ ReturnFromWait

SpecPoll == InitWait /\ [][NextPoll]_vars /\ WF_vars(PollOnce)

\* sessions and their options
NextSessions ==
    \/ BuildProps
    \/ StartSession
    \/ ShowBrowser
    \/ HideBrowser
    \/ MoveReload
    \/ ClearWindowPosition
    \/ TakeResult

SpecSessions == Init /\ [][NextSessions]_vars

\* one session on the caller's own options object, and every operation that
\* changes its argument list
NextWindow ==
    \/ CallerProps
    \/ StartSession
    \/ ShowBrowser
    \/ HideBrowser
    \/ MoveReload
    \/ MoveScreenHelper
    \/ ClearWindowPosition
    \/ TakeResult

SpecWindow == Init /\ [][NextWindow]_vars

\* navigation and cookies with instances on which the caller has set the
\* attribute check_absence, which browse_to_url reads
InitReady ==
    /\ specs \in [SpecIds -> {any_element_check}
                        \cup {any_element_check @@ [check_absence |-> c] : c \in BOOLEAN}]
    /\ specs[2] = any_element_check
    /\ InitSession

NextReady ==
    \/ BrowseToUrl
    \/ LoadCookies
    \/ TakeResult

SpecReady == InitReady /\ [][NextReady]_vars

\* navigation
NextNav ==
    \/ BrowseToUrl
    \/ LoadFrameElements
    \/ TakeResult

SpecNav == Init /\ [][NextNav]_vars

(***************************************************************************)
(* Properties of descriptors and retrieval (SpecLookup).                   *)
(***************************************************************************)
StrategySet(d) ==
    d.by_id # NONE \/ d.by_class # NONE \/ d.by_tag # NONE \/ d.by_xpath # NONE
Plain(d) ==
    ~d.force_list /\ ~d.ignore_list /\ ~d.prefer_text /\ d.grab_attrib = NONE
Matches(found) == IF found.kind = "raise" THEN <<>> ELSE found.val

\* C1: for a plain descriptor (force_list and ignore_list false, no attribute or
\* text option) get_html_elements does not raise and returns None for zero
\* matches (also when the driver signals NoSuchElement), the bare match for one
\* match, and the full sequence in the driver's order for more than one.
C1_PlainRetrievalShape ==
    (last.op = "get_html_elements" /\ Plain(last.props) /\ StrategySet(last.props))
    => /\ last.out.kind = "return"
       /\ Len(Matches(last.found)) = 0 => last.out.val = PyNone
       /\ Len(Matches(last.found)) = 1 => last.out.val = Matches(last.found)[1]
       /\ Len(Matches(last.found)) > 1 => last.out.val = List(Matches(last.found))

\* C4: translating a descriptor with none of by_id, by_class, by_tag, by_xpath
\* set fails with InvalidDescriptor and yields no (kind, value) pair.
C4_NoStrategyFailsFast ==
    (last.op = "translate" /\ ~StrategySet(last.props))
    => (last.out.kind = "raise" /\ last.out.exc = "InvalidDescriptor")

\* the precedence of the strategies, stated on its own
Precedence == <<"by_id", "by_class", "by_tag", "by_xpath">>
KindOf == <<ById, ByClassName, ByTagName, ByXPath>>
Rank(d) == CHOOSE i \in 1..4 :
              d[Precedence[i]] # NONE /\ \A j \in 1..(i - 1) : d[Precedence[j]] = NONE

\* C5: for a descriptor with a strategy set, translation yields the kind and
\* the value of the set strategy of highest precedence (identifier > class > tag >
\* path-expression), get_ref yields that value, and retrieval looks up by that
\* kind and value.
C5_PrecedenceAgrees ==
    /\ (last.op = "translate" /\ StrategySet(last.props))
       => /\ last.out.kind = "return"
          /\ last.out.val.html_element_type = KindOf[Rank(last.props)]
          /\ last.out.val.search_param = last.props[Precedence[Rank(last.props)]]
          /\ last.ref = last.props[Precedence[Rank(last.props)]]
    /\ (last.op = "get_html_elements" /\ StrategySet(last.props))
       => last.find = <<KindOf[Rank(last.props)], last.props[Precedence[Rank(last.props)]]>>

\* a descriptor with class and path-expression set, and no identifier, was translated
C5_Witness ==
    /\ last.op = "translate"
    /\ last.props.by_id = NONE /\ last.props.by_class = "login"
    /\ last.props.by_xpath = "frame"
    /\ last.out.val.html_element_type = ByClassName
    /\ last.ref = "login"

(***************************************************************************)
(* Properties of the wait engine (SpecWait).                               *)
(***************************************************************************)
ElementWaits == {"check_presence_of_element", "check_absence_of_element"}
AllWaits == ElementWaits \cup {"check_presence_of_one", "check_presence_of_all"}
TimedOut == last.readyAt \notin 0..last.pre.delay
LastEvent == last.events[Len(last.events)]
MessageHas(m, field, v) == field \in DOMAIN m /\ m[field] = v
BuiltByElementWait(err) ==
    err.t = "Errors" /\ err.message.tpl \in {"could not be found", "was found after waiting"}

\* C2 as stated: when the predicate never becomes true within props.delay,
\* check_presence_of_element / check_absence_of_element return False without
\* raising and report the specification's failure descriptor, whose message
\* contains the specification's search key and its delay.
C2_TimeoutMessageAlways ==
    (last.op \in ElementWaits /\ TimedOut)
    => /\ last.out = Return(PyBool(FALSE))
       /\ LastEvent = output_err(specs[last.s].error)
       /\ MessageHas(specs[last.s].error.message, "key", specs[last.s].search_param)
       /\ MessageHas(specs[last.s].error.message, "delay", specs[last.s].delay)

\* C2, amended: on such a timeout the two checks return False without raising
\* and report props.error; its message contains the search key and the delay
\* when the descriptor was built by one of these two checks (and not supplied
\* by the caller or built by check_presence_of_one / check_presence_of_all).
C2_TimeoutReportsDescriptor ==
    (last.op \in ElementWaits /\ TimedOut)
    => /\ last.out = Return(PyBool(FALSE))
       /\ LastEvent = output_err(specs[last.s].error)
       /\ BuiltByElementWait(specs[last.s].error)
          => /\ MessageHas(specs[last.s].error.message, "key", specs[last.s].search_param)
             /\ MessageHas(specs[last.s].error.message, "delay", specs[last.s].delay)

\* a presence check timed out on an instance that had no descriptor yet
C2_Witness ==
    /\ last.op = "check_presence_of_element" /\ TimedOut
    /\ last.pre.error = PyNone
    /\ last.out = Return(PyBool(FALSE))
    /\ LastEvent.e = "output_err" /\ LastEvent.err.message.delay = last.pre.delay

\* C6: props.error, once set (by a check or by the caller), is never replaced;
\* each of the four checks leaves it set; and every timeout reports the
\* descriptor the instance holds, so all timeouts on one instance report the
\* identical object.
C6_DescriptorBuiltOnce ==
    /\ [][\A s \in SpecIds :
            specs[s].error.t # "None" => specs'[s].error = specs[s].error]_vars
    /\ [](last.op \in AllWaits
            => /\ specs[last.s].error.t = "Errors"
               /\ last.out = Return(PyBool(FALSE))
                  => LastEvent = output_err(specs[last.s].error))

\* a second timeout on an instance: the absence check reports the descriptor
\* an earlier presence check built
C6_Witness ==
    /\ last.op = "check_absence_of_element" /\ TimedOut
    /\ last.pre.error.t = "Errors" /\ last.pre.error.id > 0
    /\ last.pre.error.message.tpl = "could not be found"
    /\ LastEvent = output_err(last.pre.error)

(***************************************************************************)
(* Properties of navigation (SpecNav).                                     *)
(***************************************************************************)
Events(name) == {i \in 1..Len(last.events) : last.events[i].e = name}
IsSwitch(ev) == ev.e = "switch"
Switched == [k \in 1..Len(SelectSeq(last.events, IsSwitch)) |->
                SelectSeq(last.events, IsSwitch)[k].frame]
\* the try block of browse_to_url went through
TryPassed == Events("default_content") # {}

\* C3: when browser.get fails with WebDriverException the session is
\* restarted (old handle quit, a new one in place) and browse_to_url returns
\* False without raising, however the restart goes.
C3_TransportFailureRestarts ==
    (last.op = "browse_to_url" /\ last.env.get = "WebDriverException")
    => /\ last.out = Return(PyBool(FALSE))
       /\ last.pre.browser \in quitted
       /\ browser # last.pre.browser /\ browser \notin quitted

\* C7: with no readiness predicate, after a successful navigation browse_to_url
\* runs the presence wait (check_absence false, the default) or the absence wait
\* (check_absence true) on the request's specification and returns the wait's
\* boolean; a request built with no specification waits on XPath '//*'.
C7_WaitChosenByCheckAbsence ==
    (last.op = "browse_to_url" /\ TryPassed /\ last.req.present_function = <<>>)
    => /\ last.out.kind = "return"
       /\ last.out.val = PyBool(last.env.readyAt \in 0..last.req.props.delay)
       /\ \E i \in Events("wait") :
             /\ last.events[i].fn.lookup = get_element_lookup(last.req.props)
             /\ last.events[i].fn.cond =
                  IF HasAttr(last.req.props, "check_absence")
                     /\ last.req.props.check_absence
                  THEN "invisibility_of_element_located"
                  ELSE "presence_of_element_located"
       /\ last.p = 0 => get_element_lookup(last.req.props) = <<ByXPath, "//*">>

C9_FrameDescent ==
    (last.op = "browse_to_url" /\ last.env.get = "ok")
    => /\ Switched = Matches(last.env.frames) \o Matches(last.env.iframes)
       /\ TryPassed
       /\ context = TopLevel

\* C10: on a page with no frame and no iframe element load_frame_elements
\* returns normally and attempts no context switch.
C10_NoFramesNoSwitch ==
    (last.op = "load_frame_elements"
        /\ Matches(last.frames) = <<>> /\ Matches(last.iframes) = <<>>)
    => /\ last.out.kind = "return"
       /\ Events("switch") = {}
       /\ context = last.pre.context

(***************************************************************************)
(* Composite waits (SpecWait).                                             *)
(***************************************************************************)
\* C11: check_presence_of_all returns True when every specification of the
\* list has a match within main_prop.delay and False, without raising, when
\* that does not happen before the deadline.
C11_AllOfWaits ==
    (last.op = "check_presence_of_all")
    => last.out = Return(PyBool(last.readyAt \in 0..last.pre.delay))

\* the first statement of the evaluation that returns a truthy value, 0 if none does
FirstTruthy(statements) ==
    IF \E i \in 1..Len(statements) : Truthy(statements[i])
    THEN CHOOSE i \in 1..Len(statements) :
            Truthy(statements[i]) /\ \A j \in 1..(i - 1) : ~Truthy(statements[j])
    ELSE 0

\* C12: _check_results calls its statements in the given order and stops at
\* the first one that returns a truthy value: no later statement is called, and
\* the result is truthy iff one of the statements called returned truthy.
C12_AnyOfShortCircuits ==
    (last.op = "_check_results")
    => LET k == FirstTruthy(last.statements)
           n == IF k = 0 THEN Len(last.statements) ELSE k
       IN /\ last.calls = [i \in 1..n |-> i]
          /\ Truthy(last.out.val) <=> k # 0
          /\ Truthy(last.out.val)
                <=> \E i \in 1..Len(last.calls) : Truthy(last.statements[last.calls[i]])

\* the first of three statements returned a match and the other two were not called
C12_Witness ==
    /\ last.op = "_check_results"
    /\ Len(last.statements) = 3
    /\ Truthy(last.statements[1]) /\ Truthy(last.statements[2])
    /\ last.calls = <<1>>
    /\ Truthy(last.out.val)

(***************************************************************************)
(* Shape and kind of a retrieval result (SpecLookup).                      *)
(***************************************************************************)
Retrieved == last.op = "get_html_elements" /\ StrategySet(last.props)

\* what a match stands for in the result: its attribute value when grab_attrib
\* is set, otherwise its text when prefer_text is set, otherwise the handle
Item(props, e) ==
    IF props.grab_attrib # NONE THEN get_attribute(e, props.grab_attrib)
    ELSE IF props.prefer_text THEN text(e)
    ELSE e

\* the shape rule on a sequence of items: none, scalar or sequence
Normalized(props, items) ==
    IF Len(items) = 0 THEN PyNone
    ELSE IF Len(items) = 1 THEN (IF props.force_list THEN List(items) ELSE items[1])
    ELSE IF props.ignore_list THEN items[1]
    ELSE List(items)

\* C13: with force_list and exactly one match, get_html_elements returns a
\* one-element sequence, and normalizing that result again leaves it as it is.
C13_ForceListKeepsSequence ==
    (Retrieved /\ last.props.force_list /\ Len(Matches(last.found)) = 1)
    => /\ last.out.kind = "return"
       /\ last.out.val = List(<<Item(last.props, Matches(last.found)[1])>>)
       /\ Normalized(last.props, last.out.val.items) = last.out.val

\* C14: with ignore_list and more than one match, the result is the first
\* match in the driver's order as a scalar, whatever the other options are.
C14_IgnoreListTakesFirst ==
    (Retrieved /\ last.props.ignore_list /\ Len(Matches(last.found)) > 1)
    => last.out = Return(Item(last.props, Matches(last.found)[1]))

\* C15: with grab_attrib, get_html_elements returns the attribute values of
\* the matches (a string, or None where the attribute is absent) in the
\* normalized shape; one match whose attribute is "https://x" yields that string.
C15_AttributeValuesShaped ==
    (Retrieved /\ last.props.grab_attrib # NONE)
    => last.out =
         Return(Normalized(last.props,
                    [i \in 1..Len(Matches(last.found)) |->
                        get_attribute(Matches(last.found)[i], last.props.grab_attrib)]))

\* C16: for every prefer_text, grab_attrib and match count the call returns,
\* and every item of the result is of the one kind the options select.
C16_ResultOfOneKind ==
    Retrieved
    => /\ last.out.kind = "return"
       /\ \A i \in 1..Len(listify(last.out.val)) :
             \E k \in 1..Len(Matches(last.found)) :
                listify(last.out.val)[i] = Item(last.props, Matches(last.found)[k])

C19_ArityMismatchFirst ==
    (last.op = "create_batch_element_lookup" /\ Len(last.values) # Len(last.props))
    => /\ last.out = Raise("ArityMismatch")
       /\ last.events = <<>>

\* a batch of 2 keys and 3 descriptors was refused
C19_Witness ==
    /\ last.op = "create_batch_element_lookup"
    /\ Len(last.values) = 2 /\ Len(last.props) = 3
    /\ last.out.kind = "raise"
    /\ last.events = <<>>

(***************************************************************************)
(* Independence of sessions (SpecSessions).                                *)
(***************************************************************************)
SessionOps == {"SeleniumBrowserProps", "SeleniumBrowser", "show_browser", "hide_browser",
               "move_reload", "clear_window_position"}

\* C20: an operation on one session (construction, show_browser, hide_browser,
\* move_reload, clear_window_position) leaves the argument list of the other
\* session's options as it was.
C20_SessionsShareNothing ==
    last.op \in SessionOps
    => \A j \in SessionIds \ {last.i} :
          sessions[j] # NoSession => Arguments(j) = last.pre[sessions[j].options]

(***************************************************************************)
(* Cookies and the order of a navigation (SpecReady).                      *)
(***************************************************************************)
\* C21: in load_cookies, when the cookie file cannot be deserialized the file
\* is deleted, the call returns False and no cookie was added; cookies are
\* added only after the whole snapshot was deserialized; and no file is read
\* when the navigation before it failed.
C21_CookiesAllOrNothing ==
    (last.op = "load_cookies")
    => /\ (last.browsed = Return(PyBool(TRUE)) /\ last.file.kind # "snapshot")
          => /\ last.out = Return(PyBool(FALSE))
             /\ Events("remove_if_exists") # {}
             /\ last.left = MissingFile
             /\ Events("add_cookie") = {}
       /\ \A i \in Events("add_cookie") :
             /\ last.file.kind = "snapshot"
             /\ \E j \in Events("pickle.load") : j < i
       /\ last.browsed # Return(PyBool(TRUE))
          => (Events("open") = {} /\ Events("add_cookie") = {} /\ last.left = last.file)

\* the navigation succeeded and the cookie file was corrupt: it was removed
C21_Witness ==
    /\ last.op = "load_cookies"
    /\ last.browsed = Return(PyBool(TRUE))
    /\ last.file = CorruptFile
    /\ last.out = Return(PyBool(FALSE))
    /\ last.left = MissingFile

\* the steps of a browse_to_url call, as indexes into its events
Navigated == Events("get")
Descent == Events("find") \cup Events("switch")
ToTop == Events("default_content")
Readiness == Events("present_function") \cup Events("wait")
DescentRaised ==
    load_frame_elements(5, last.env.frames, last.env.iframes, last.env.switches,
                        TopLevel).out.kind = "raise"

\* C22: in every browse_to_url call the steps come in the order navigate,
\* frame descent, switch to the top-level document, readiness check; the
\* readiness check (predicate or wait) is evaluated at most once, and not at
\* all when the navigate call or the frame descent raised.
C22_StepsInOrder ==
    (last.op = "browse_to_url")
    => /\ Navigated = {1}
       /\ \A d \in Descent : \A t \in ToTop \cup Readiness : d < t
       /\ \A t \in ToTop : \A r \in Readiness : t < r
       /\ Cardinality(ToTop) <= 1 /\ Cardinality(Readiness) <= 1
       /\ Readiness # {} => ToTop # {}
       /\ (last.env.get # "ok" \/ DescentRaised) => (Readiness = {} /\ ToTop = {})
       /\ last.env.get # "ok" => Descent = {}

\* a navigation with a descent into four frames, the switch to the top-level
\* document and then a presence wait that succeeded
C22_Witness ==
    /\ last.op = "browse_to_url"
    /\ Len(Switched) >= 4
    /\ Events("wait") # {}
    /\ last.out = Return(PyBool(TRUE))

(***************************************************************************)
(* Restarts (SpecNav).                                                     *)
(***************************************************************************)
\* C23: a restart quits the old driver handle and then creates the new one,
\* after it the session's handle is the new one, and no operation is issued
\* against a handle that has been quit.
C23_RestartReplacesHandle ==
    /\ (last.op = "browse_to_url" /\ Events("quit") # {})
       => /\ \E q \in Events("quit"), c \in Events("Chrome") :
                /\ q < c
                /\ last.events[q].handle = last.pre.browser
                /\ last.events[c].handle = browser
          /\ browser # last.pre.browser
    /\ browser \notin quitted

(***************************************************************************)
(* The window-position argument of one session (SpecWindow).               *)
(***************************************************************************)
IsPosition(a) == a[1] = "--window-position="
IsOther(a) == ~IsPosition(a)
Positions(args) == SelectSeq(args, IsPosition)
Others(args) == SelectSeq(args, IsOther)
Members(args) == {args[idx] : idx \in 1..Len(args)}

WindowOps == {"show_browser", "hide_browser", "move_reload", "move_screen_helper",
              "clear_window_position"}
MoveOps == {"move_reload", "move_screen_helper"}

\* the window-position arguments a call must leave in the list: the position
\* a reloading move asked for; the default position when show_browser's
\* restart raised (its closing tiny()/normal() clears it otherwise); none
\* after any other call
Requested ==
    IF last.op \in MoveOps
    THEN IF last.req.reload THEN <<get_chrome_position(last.req.point)>> ELSE <<>>
    ELSE IF last.op = "show_browser" /\ last.out # Return(PyNone)
    THEN <<get_chrome_position(Point1)>>
    ELSE <<>>

====
